---- MODULE Spec2Model ----
(***************************************************************************)
(* Course generation and publication workflow of coursegpt: the HTTP       *)
(* handlers under src/app/api and the client read pages, as a state        *)
(* machine over the "courses" collection.  A handler is split at its        *)
(* awaits: the store read, the external AI/search call and the store        *)
(* write are separate atomic steps, so requests interleave as they do on    *)
(* the server.                                                              *)
(***************************************************************************)
EXTENDS Integers, Sequences, FiniteSets, TLC

\* ------------------------------------------------------------------ bounds
MaxClock   == 3      \* server timestamps handed out (one per store write)
MaxCourses == 1      \* documents the store will hold
MaxToasts  == 4      \* toasts shown (calls of toast())
MaxFlights == 2      \* requests the editor page sends
MaxIndex   == 1      \* largest chapterIndex a request carries

\* ------------------------------------------------------------------ values
TOAST_LIMIT == 1              \* use-toast.ts
Undefined == "undefined"      \* a JS value that is absent / undefined
None      == <<>>             \* optional non-string value: absent
Some(x)   == <<x>>            \* optional non-string value: present

Users      == {"u1", "u2"}
Reqs       == {1, 2}                      \* two requests: a race takes two
IdPool     == <<"c1", "c2", "c3">>          \* ids the store assigns, in order
MissingId  == "zz"                         \* an id the store never assigns
SeedId     == "c0"                         \* the id of a course made earlier
Indices    == 0..MaxIndex

\* Model output is text over a small alphabet: braces, the JSON members
\* "a" "b" (array elements), "d" (a description) and "c" (a member whose
\* key is courseId), and prose "x".
AITexts ==
  { <<"{", "a", "}">>,
    <<"{", "a", "c", "}">>,
    <<"x", "{", "a", "b", "d", "}", "x">>,
    <<"{", "a", "}", "x", "{", "b", "}">>,
    <<"{", "}">>,
    <<"x", "x">>,
    <<>> }

\* Search results: the identifier sequence of data.items, or no items field.
VideoItems == { Some(<<"v1">>), Some(<<"v2", "v1">>), None }

\* ------------------------------------------------------------------ parsing
NoMatch    == <<"nomatch">>
ParseError == [error |-> TRUE]

FirstBrace(t) ==
  IF \E i \in 1..Len(t) : t[i] = "{"
    THEN CHOOSE i \in 1..Len(t) : t[i] = "{" /\ \A j \in 1..(i-1) : t[j] /= "{"
    ELSE 0

LastBraceFrom(t, from) ==
  IF \E i \in from..Len(t) : t[i] = "}"
    THEN CHOOSE i \in from..Len(t) : t[i] = "}" /\ \A j \in (i+1)..Len(t) : t[j] /= "}"
    ELSE 0

\* responseText.match(/\{[\s\S]*\}/): from the first "{" to the last "}"
\* after it (the star is greedy); null when there is no such pair.
RegexMatch(t) ==
  LET f == FirstBrace(t) IN
  IF f = 0 THEN NoMatch
  ELSE LET l == LastBraceFrom(t, f + 1) IN
       IF l = 0 THEN NoMatch ELSE SubSeq(t, f, l)

\* Depth of brace nesting after reading s[1..n]; -1 once it went negative.
RECURSIVE Depth(_, _)
Depth(s, n) ==
  IF n = 0 THEN 0
  ELSE LET d == Depth(s, n - 1) IN
       IF d < 0 THEN -1
       ELSE IF s[n] = "{" THEN d + 1
       ELSE IF s[n] = "}" THEN d - 1
       ELSE d

\* The text is one JSON object: it opens with "{", closes with the matching
\* "}" at its very end, and holds no prose.
JSONValid(s) ==
  /\ Len(s) >= 2
  /\ s[1] = "{"
  /\ \A i \in 1..Len(s) : s[i] /= "x"
  /\ Depth(s, Len(s)) = 0
  /\ \A n \in 1..(Len(s) - 1) : Depth(s, n) > 0

\* The array members of the top-level object, in order.
RECURSIVE TopItems(_, _)
TopItems(s, n) ==
  IF n = 0 THEN <<>>
  ELSE LET rest == TopItems(s, n - 1) IN
       IF s[n] \in {"a", "b"} /\ Depth(s, n) = 1 THEN Append(rest, s[n]) ELSE rest

\* JSON.parse: the object's array (absent for an object without members),
\* whether it carries a description and the value under its courseId key;
\* ParseError when it throws.
JSONParse(s) ==
  IF ~JSONValid(s) THEN ParseError
  ELSE LET items == TopItems(s, Len(s)) IN
       [ items |-> IF items = <<>> THEN None ELSE Some(items),
         hasDescription |-> \E i \in 1..Len(s) : s[i] = "d" /\ Depth(s, i) = 1,
         courseId |-> IF \E i \in 1..Len(s) : s[i] = "c" /\ Depth(s, i) = 1
                        THEN "aiCourse" ELSE Undefined ]

\* The try block shared by both generators.
ExtractJSON(t) ==
  LET m == RegexMatch(t) IN
  IF m /= NoMatch THEN JSONParse(m) ELSE JSONParse(t)

\* ------------------------------------------------------------------ documents
Falsy(v) == v \in {Undefined, ""}

\* A chapter object; a field the object does not have is Undefined / None.
EmptyObject ==
  [ chapterName |-> Undefined, about |-> Undefined, duration |-> Undefined,
    content |-> None, youtubeVideos |-> None ]

\* The chapter {chapterName, about, duration} the model wrote as member m.
ParsedChapter(m) ==
  [ chapterName |-> m, about |-> m, duration |-> m,
    content |-> None, youtubeVideos |-> None ]

ParsedChapters(items) ==
  IF items = None THEN None
  ELSE Some([ i \in 1..Len(items[1]) |-> ParsedChapter(items[1][i]) ])

\* An assignment that leaves the array alone when the index is past its end.
ArraySetInRange(array, index, value) ==
  [ k \in 1..Len(array) |-> IF k = index + 1 THEN value ELSE array[k] ]

\* array[index] = value on a copy of the array (index counts from 0): an
\* index past the end lengthens the array and leaves empty slots between.
ArraySet(array, index, value) ==
  [ k \in 1..(IF index + 1 > Len(array) THEN index + 1 ELSE Len(array)) |->
      IF k = index + 1 THEN value
      ELSE IF k <= Len(array) THEN array[k]
      ELSE EmptyObject ]

ArrayGet(array, index) ==
  IF index + 1 <= Len(array) THEN array[index + 1] ELSE EmptyObject

\* The spread forgotten: chapters[chapterIndex] = { content }
MergeContentBare(chapters, index, content) ==
  ArraySet(chapters, index, [EmptyObject EXCEPT !.content = content])

\* chapters[chapterIndex] = { ...chapters[chapterIndex], content }
MergeContent(chapters, index, content) ==
  ArraySet(chapters, index, [ArrayGet(chapters, index) EXCEPT !.content = content])

\* The new identifiers appended to the stored ones.
MergeVideosAppended(chapters, index, videoIds) ==
  ArraySet(chapters, index,
           [ArrayGet(chapters, index) EXCEPT
              !.youtubeVideos = Some((IF @ = None THEN <<>> ELSE @[1]) \o videoIds)])

\* chapters[chapterIndex] = { ...chapters[chapterIndex], youtubeVideos: videoIds }
MergeVideos(chapters, index, videoIds) ==
  ArraySet(chapters, index, [ArrayGet(chapters, index) EXCEPT !.youtubeVideos = Some(videoIds)])

\* The course with its chapters cut to the requested chapterCount.
NewCourseCounted(body, parsed, now) ==
  [ userId        |-> body.userId,
    courseName    |-> "aiName",
    description   |-> IF parsed.hasDescription THEN "aiDesc" ELSE body.description,
    category      |-> body.category,
    topic         |-> body.topic,
    level         |-> body.difficulty,
    duration      |-> body.duration,
    noOfChapters  |-> body.chapterCount,
    chapters      |-> IF parsed.items = None THEN None
                      ELSE Some(SubSeq(ParsedChapters(parsed.items)[1], 1,
                                       body.chapterCount[1])),
    includeYoutube |-> body.includeYoutube,
    status        |-> "draft",
    createdAt     |-> now,
    updatedAt     |-> now,
    publishedAt   |-> None ]

\* courseData of the generate handler, with the timestamps the store sets.
NewCourse(body, parsed, now) ==
  [ userId        |-> body.userId,
    courseName    |-> "aiName",
    description   |-> IF parsed.hasDescription THEN "aiDesc" ELSE body.description,
    category      |-> body.category,
    topic         |-> body.topic,
    level         |-> body.difficulty,
    duration      |-> body.duration,
    noOfChapters  |-> body.chapterCount,
    chapters      |-> ParsedChapters(parsed.items),
    includeYoutube |-> body.includeYoutube,
    status        |-> "draft",
    createdAt     |-> now,
    updatedAt     |-> now,
    publishedAt   |-> None ]

\* Publishing that keeps the first publication date.
PublishUpdateOnce(d, now) ==
  [d EXCEPT !.status = "published",
            !.publishedAt = IF d.status = "published" THEN @ ELSE Some(now),
            !.updatedAt = now]

\* updateDoc(courseRef, { status: "published", publishedAt, updatedAt })
PublishUpdate(d, now) ==
  [d EXCEPT !.status = "published", !.publishedAt = Some(now), !.updatedAt = now]

\* updateDoc(courseRef, { chapters, updatedAt })
ChaptersUpdate(d, chapters, now) ==
  [d EXCEPT !.chapters = Some(chapters), !.updatedAt = now]

\* updateDoc(courseRef, { ...body, updatedAt }): every key of the body is
\* written; the body's keys here are userId, status and courseName.
PutUpdate(d, body, now) ==
  [d EXCEPT !.userId     = IF body.userId = Undefined THEN @ ELSE body.userId,
            !.status     = IF body.status = Undefined THEN @ ELSE body.status,
            !.courseName = IF body.courseName = Undefined THEN @ ELSE body.courseName,
            !.updatedAt  = now]

\* ------------------------------------------------------------------ requests
CourseIdsAsked == { IdPool[i] : i \in 1..MaxCourses } \cup { MissingId }

GenerateBody(u) ==
  [ userId |-> u, category |-> "cat", topic |-> "top", difficulty |-> "lvl",
    duration |-> "dur", description |-> "desc", includeYoutube |-> "true",
    chapterCount |-> Some(1) ]

\* The body without one of its fields.
Lacking(body, field) ==
  [body EXCEPT ![field] = IF field = "chapterIndex" THEN None ELSE Undefined]

\* The fields each validation names.
GenerateRequired == {"userId", "category", "topic", "difficulty", "duration"}
ContentRequired ==
  {"userId", "courseId", "chapterIndex", "chapterName", "courseTopic", "difficulty"}
VideoRequired == {"userId", "courseId", "chapterIndex", "chapterName", "courseTopic"}

GenerateBodies ==
  { GenerateBody(u) : u \in Users } \cup { [GenerateBody("u1") EXCEPT !.category = ""] }
    \cup { Lacking(GenerateBody("u1"), f) : f \in GenerateRequired }

ChapterBody(u, c, i) ==
  [ userId |-> u, courseId |-> c, chapterIndex |-> Some(i),
    chapterName |-> "ch", courseTopic |-> "top", difficulty |-> "lvl" ]

CourseIds == { IdPool[i] : i \in 1..MaxCourses }

ChapterBodies ==
  { ChapterBody(u, c, i) : u \in Users, c \in CourseIds, i \in Indices }
    \cup { ChapterBody("u1", MissingId, 0) }

ContentBodies ==
  ChapterBodies \cup { Lacking(ChapterBody("u1", IdPool[1], 0), f) : f \in ContentRequired }

\* The search needs no difficulty: the body without it is a valid one.
VideoBodies ==
  ChapterBodies \cup { Lacking(ChapterBody("u1", IdPool[1], 0), f) : f \in ContentRequired }

PublishBodies ==
  [ userId : Users, courseId : CourseIds ]
    \cup { [userId |-> "u1", courseId |-> MissingId],
           [userId |-> Undefined, courseId |-> IdPool[1]] }

PutBodies ==
  [ courseId : CourseIds, userId : Users \cup {Undefined, ""},
    status : {"draft"}, courseName : {Undefined} ]
    \cup { [courseId |-> MissingId, userId |-> "u1", status |-> Undefined,
            courseName |-> "renamed"] }

\* A read: who asks (Undefined: nobody is signed in) and for which course.
ReadBodies ==
  [ courseId : CourseIds, viewer : Users \cup {Undefined} ]
    \cup { [courseId |-> MissingId, viewer |-> Undefined] }

ReadKinds == {"get", "coursePage", "chapterPage", "completePage"}

NoSnap == [none |-> TRUE]

\* A success body: the keys the handler puts into NextResponse.json.
Response(status, courseId, chapterIndex, data) ==
  [ status |-> status, courseId |-> courseId, chapterIndex |-> chapterIndex, data |-> data,
    error |-> Undefined ]

\* An error body { error: message } with its status.
ErrorResponse(status) ==
  [ status |-> status, courseId |-> Undefined, chapterIndex |-> None, data |-> None,
    error |-> IF status = 400 THEN "Missing required fields"
              ELSE IF status = 403 THEN "Unauthorized"
              ELSE IF status = 404 THEN "Course not found"
              ELSE IF status = 405 THEN "Method not allowed"
              ELSE "Failed" ]

\* The inner catch of the generators: the model's text did not parse.
ParseFailure == [ErrorResponse(500) EXCEPT !.error = "Failed to parse"]

NoResponse == Response(0, Undefined, None, None)

\* text: responseText, once the model has answered.
IdleReq ==
  [ pc |-> "idle", kind |-> "none", body |-> [courseId |-> Undefined],
    snap |-> NoSnap, text |-> None, result |-> None, resp |-> NoResponse ]

\* courses: the "courses" collection; clock: the server's timestamp source;
\* req: the requests; lanes: how many requests are handled at a time.
VARIABLES courses, clock, req, lanes

\* The browser's side.  use-toast.ts: count, memoryState, toastTimeouts and
\* timers, the setTimeout callbacks not yet run.  AuthProvider: auth (user,
\* userData, loading), users, the "users" collection, and saves, the runs of
\* saveUserToFirestore.  ProtectedRoute: view, what it rendered last.
\* The router: pathname.  The wizard page: wizard (step, courseData,
\* isLoading).  The editor page: editor (course, activeChapter, isSaving) and
\* flights, its handlers waiting for a response.
VARIABLES count, memoryState, toastTimeouts, timers, auth, users, saves, view,
          pathname, wizard, editor, flights

toastVars == <<count, memoryState, toastTimeouts, timers>>
authVars == <<auth, users, saves, view>>
client == <<toastVars, authVars, pathname, wizard, editor, flights>>
server == <<courses, clock, req, lanes>>
vars == <<server, client>>

Null == "null"

\* useState's initial values and the module-level values of use-toast.ts.
NoUser == [user |-> Null, userData |-> Null, loading |-> TRUE]
NoView == [shows |-> "unmounted", user |-> Null, loading |-> TRUE, effect |-> FALSE]
NewWizard ==
  [ step |-> 0,
    courseData |-> [category |-> "", customCategory |-> "", topic |-> ""],
    isLoading |-> FALSE ]
NewEditor == [course |-> None, activeChapter |-> 0, isSaving |-> FALSE]

\* A run of saveUserToFirestore for each of its two callers, and where the
\* caller stands.
IdleRun == [pc |-> "idle", user |-> Null]
NoSaves == [signIn |-> IdleRun, listener |-> IdleRun]

\* Everything in the browser but who is signed in.
PagesInit ==
  /\ count = 0
  /\ memoryState = [toasts |-> <<>>]
  /\ toastTimeouts = {}
  /\ timers = <<>>
  /\ users = <<>>
  /\ saves = NoSaves
  /\ view = NoView
  /\ pathname = <<"/">>
  /\ wizard = NewWizard
  /\ editor = NewEditor
  /\ flights = <<>>

ClientInit == PagesInit /\ auth = NoUser

Init ==
  /\ courses = <<>>
  /\ clock = 0
  /\ req = [r \in Reqs |-> IdleReq]
  /\ lanes = 1
  /\ ClientInit

Exists(c) == c \in DOMAIN courses
CourseOf(r) == req[r].body.courseId
Free(r) == req[r].pc \in {"idle", "done"}

Begin(r, kind, body, pc) ==
  req' = [req EXCEPT ![r] = [IdleReq EXCEPT !.pc = pc, !.kind = kind, !.body = body]]

Finish(r, response) ==
  req' = [req EXCEPT ![r].pc = "done", ![r].resp = response]

Reject(r, kind, body, status) ==
  req' = [req EXCEPT ![r] = [IdleReq EXCEPT !.pc = "done", !.kind = kind, !.body = body,
                                            !.resp = ErrorResponse(status)]]

\* A request is taken when a lane is open; it gets the lowest free number.
Accept(r) ==
  /\ Free(r)
  /\ \A q \in Reqs : q < r => ~Free(q)
  /\ Cardinality({ q \in Reqs : ~Free(q) }) < lanes

Now == clock + 1
Tick == clock < MaxClock /\ clock' = clock + 1

\* ------------------------------------------------------- POST generate course
GenerateInvalid(b) ==
  Falsy(b.userId) \/ Falsy(b.category) \/ Falsy(b.topic) \/ Falsy(b.difficulty)
    \/ Falsy(b.duration)

Generating == { q \in Reqs : req[q].kind = "generate" /\ req[q].pc \in {"call", "write"} }

\* The request reaches the handler.
GenerateReceived(r, b) ==
  /\ Accept(r)
  /\ IF GenerateInvalid(b)
       THEN Reject(r, "generate", b, 400)
       ELSE /\ Cardinality(DOMAIN courses \ {SeedId}) + Cardinality(Generating)
                 < MaxCourses
            /\ Begin(r, "generate", b, "call")
  /\ UNCHANGED <<courses, clock, lanes>>

GenerateStart(r, b) == GenerateReceived(r, b) /\ UNCHANGED client

GenerateReturn(r, text) ==
  /\ req[r].pc = "call" /\ req[r].kind = "generate"
  /\ LET parsed == ExtractJSON(text) IN
       IF parsed = ParseError
         THEN req' = [req EXCEPT ![r].pc = "done", ![r].text = Some(text),
                                 ![r].resp = ParseFailure]
         ELSE req' = [req EXCEPT ![r].pc = "write", ![r].text = Some(text),
                                 ![r].result = Some(parsed)]
  /\ UNCHANGED <<courses, clock, lanes, client>>

\* An id found in the store already, as setDoc on a fixed reference uses.
NextIdReused == SeedId

\* addDoc gives the document a fresh id.
NextId == IdPool[Cardinality(DOMAIN courses \ {SeedId}) + 1]

GenerateWrite(r) ==
  /\ UNCHANGED <<lanes, client>>
  /\ req[r].pc = "write" /\ req[r].kind = "generate"
  /\ Tick
  /\ courses' = courses @@ (NextId :> NewCourse(req[r].body, req[r].result[1], Now))
  /\ Finish(r, Response(200, NextId, None, None))

\* ------------------------------------------------------- POST chapter content
\* The validation of the video route, which asks for no difficulty.
ContentInvalidAsVideo(b) ==
  Falsy(b.userId) \/ Falsy(b.courseId) \/ b.chapterIndex = None \/ Falsy(b.chapterName)
    \/ Falsy(b.courseTopic)

ContentInvalid(b) ==
  Falsy(b.userId) \/ Falsy(b.courseId) \/ b.chapterIndex = None \/ Falsy(b.chapterName)
    \/ Falsy(b.courseTopic) \/ Falsy(b.difficulty)

\* The ownership check left out.
NotOwnerSkipped(courseData, userId) == FALSE

\* courseData.userId !== userId
NotOwner(courseData, userId) == courseData.userId /= userId

\* The model asked before the course is read.
ContentStartCallsFirst(r, b) ==
  /\ Accept(r)
  /\ IF ContentInvalid(b) THEN Reject(r, "content", b, 400)
                          ELSE Begin(r, "content", b, "call")
  /\ UNCHANGED <<courses, clock, lanes, client>>

\* The request reaches the handler.
ContentReceived(r, b) ==
  /\ Accept(r)
  /\ IF ContentInvalid(b) THEN Reject(r, "content", b, 400)
                          ELSE Begin(r, "content", b, "read")
  /\ UNCHANGED <<courses, clock, lanes>>

ContentStart(r, b) == ContentReceived(r, b) /\ UNCHANGED client

\* The checks in the other order: a course that is not there has no owner,
\* so whoever asks is not its owner.
ChapterReadOwnerFirst(r, kind) ==
  /\ req[r].pc = "read" /\ req[r].kind = kind
  /\ LET c == req[r].body.courseId IN
       IF ~Exists(c) THEN Finish(r, ErrorResponse(403))
       ELSE IF NotOwner(courses[c], req[r].body.userId)
         THEN req' = [req EXCEPT ![r].pc = "done", ![r].snap = courses[c],
                                 ![r].resp = ErrorResponse(403)]
         ELSE req' = [req EXCEPT ![r].pc = "call", ![r].snap = courses[c]]
  /\ UNCHANGED <<courses, clock, lanes, client>>

\* getDoc, the existence check and the ownership check of the chapter handlers
ChapterRead(r, kind) ==
  /\ req[r].pc = "read" /\ req[r].kind = kind
  /\ LET c == req[r].body.courseId IN
       IF ~Exists(c) THEN Finish(r, ErrorResponse(404))
       ELSE IF NotOwner(courses[c], req[r].body.userId)
         THEN req' = [req EXCEPT ![r].pc = "done", ![r].snap = courses[c],
                                 ![r].resp = ErrorResponse(403)]
         ELSE req' = [req EXCEPT ![r].pc = "call", ![r].snap = courses[c]]
  /\ UNCHANGED <<courses, clock, lanes, client>>

ContentRead(r) == ChapterRead(r, "content")

\* A text that does not parse taken as an empty section array.
ContentReturnLenient(r, text) ==
  /\ req[r].pc = "call" /\ req[r].kind = "content"
  /\ LET parsed == ExtractJSON(text) IN
       IF req[r].snap.chapters = None
         THEN req' = [req EXCEPT ![r].pc = "done", ![r].text = Some(text),
                                 ![r].resp = ErrorResponse(500)]
         ELSE req' = [req EXCEPT ![r].pc = "write", ![r].text = Some(text),
                                 ![r].result = IF parsed = ParseError THEN Some(<<>>)
                                                                      ELSE parsed.items]
  /\ UNCHANGED <<courses, clock, lanes, client>>

\* The model answered: parse, then copy courseData.chapters ([...undefined]
\* throws) and set the chapter; updateDoc is issued.
ContentReturn(r, text) ==
  /\ req[r].pc = "call" /\ req[r].kind = "content"
  /\ LET parsed == ExtractJSON(text) IN
       IF parsed = ParseError
         THEN req' = [req EXCEPT ![r].pc = "done", ![r].text = Some(text),
                                 ![r].resp = ParseFailure]
         ELSE IF req[r].snap.chapters = None
         THEN req' = [req EXCEPT ![r].pc = "done", ![r].text = Some(text),
                                 ![r].resp = ErrorResponse(500)]
         ELSE req' = [req EXCEPT ![r].pc = "write", ![r].text = Some(text),
                                 ![r].result = parsed.items]
  /\ UNCHANGED <<courses, clock, lanes, client>>

\* NextResponse.json({ courseId, chapterIndex, ...chapterContent }): the
\* keys of the parsed object come last and replace the echoed ones.
ContentResponse(body, chapterContent) ==
  Response(200,
           IF chapterContent.courseId /= Undefined THEN chapterContent.courseId
                                                   ELSE body.courseId,
           body.chapterIndex, chapterContent.items)

\* The write that merges into the chapters stored at the time of the write.
ContentWriteCurrent(r) ==
  /\ UNCHANGED <<lanes, client>>
  /\ req[r].pc = "write" /\ req[r].kind = "content"
  /\ Tick
  /\ LET b == req[r].body
         chapters == MergeContent(courses[b.courseId].chapters[1], b.chapterIndex[1],
                                  req[r].result)
     IN /\ courses' = [courses EXCEPT ![b.courseId] = ChaptersUpdate(@, chapters, Now)]
        /\ Finish(r, ContentResponse(b, ExtractJSON(req[r].text[1])))

ContentWrite(r) ==
  /\ UNCHANGED <<lanes, client>>
  /\ req[r].pc = "write" /\ req[r].kind = "content"
  /\ Tick
  /\ LET b == req[r].body
         chapters == MergeContent(req[r].snap.chapters[1], b.chapterIndex[1], req[r].result)
     IN /\ courses' = [courses EXCEPT ![b.courseId] = ChaptersUpdate(@, chapters, Now)]
        /\ Finish(r, ContentResponse(b, ExtractJSON(req[r].text[1])))

\* ------------------------------------------------------- POST fetch videos
VideoInvalid(b) ==
  Falsy(b.userId) \/ Falsy(b.courseId) \/ b.chapterIndex = None \/ Falsy(b.chapterName)
    \/ Falsy(b.courseTopic)

\* The request reaches the handler.
VideoReceived(r, b) ==
  /\ Accept(r)
  /\ IF VideoInvalid(b) THEN Reject(r, "video", b, 400)
                        ELSE Begin(r, "video", b, "read")
  /\ UNCHANGED <<courses, clock, lanes>>

VideoStart(r, b) == VideoReceived(r, b) /\ UNCHANGED client

VideoRead(r) == ChapterRead(r, "video")

\* The search answered: videos.map throws when data.items is missing.
VideoReturn(r, items) ==
  /\ req[r].pc = "call" /\ req[r].kind = "video"
  /\ IF items = None \/ req[r].snap.chapters = None
       THEN Finish(r, ErrorResponse(500))
       ELSE req' = [req EXCEPT ![r].pc = "write", ![r].result = items]
  /\ UNCHANGED <<courses, clock, lanes, client>>

VideoWrite(r) ==
  /\ UNCHANGED <<lanes, client>>
  /\ req[r].pc = "write" /\ req[r].kind = "video"
  /\ Tick
  /\ LET b == req[r].body
         chapters == MergeVideos(req[r].snap.chapters[1], b.chapterIndex[1], req[r].result[1])
     IN /\ courses' = [courses EXCEPT ![b.courseId] = ChaptersUpdate(@, chapters, Now)]
        /\ Finish(r, Response(200, b.courseId, b.chapterIndex, req[r].result))

\* ------------------------------------------------------- POST publish
PublishInvalid(b) == Falsy(b.userId)

PublishStart(r, b) ==
  /\ Accept(r)
  /\ IF PublishInvalid(b) THEN Reject(r, "publish", b, 400)
                          ELSE Begin(r, "publish", b, "read")
  /\ UNCHANGED <<courses, clock, lanes, client>>

PublishRead(r) ==
  /\ req[r].pc = "read" /\ req[r].kind = "publish"
  /\ LET c == req[r].body.courseId IN
       IF ~Exists(c) THEN Finish(r, ErrorResponse(404))
       ELSE IF NotOwner(courses[c], req[r].body.userId)
         THEN req' = [req EXCEPT ![r].pc = "done", ![r].snap = courses[c],
                                 ![r].resp = ErrorResponse(403)]
         ELSE req' = [req EXCEPT ![r].pc = "write", ![r].snap = courses[c]]
  /\ UNCHANGED <<courses, clock, lanes, client>>

\* The document that was read written back whole with the new status.
PublishWriteWhole(r) ==
  /\ UNCHANGED <<lanes, client>>
  /\ req[r].pc = "write" /\ req[r].kind = "publish"
  /\ Tick
  /\ LET c == req[r].body.courseId IN
       /\ courses' = [courses EXCEPT ![c] = PublishUpdate(req[r].snap, Now)]
       /\ Finish(r, Response(200, c, None, None))

PublishWrite(r) ==
  /\ UNCHANGED <<lanes, client>>
  /\ req[r].pc = "write" /\ req[r].kind = "publish"
  /\ Tick
  /\ LET c == req[r].body.courseId IN
       /\ courses' = [courses EXCEPT ![c] = PublishUpdate(@, Now)]
       /\ Finish(r, Response(200, c, None, None))

\* ------------------------------------------------------- PUT update course
\* body.userId && courseData.userId !== body.userId
PutNotOwner(courseData, body) ==
  ~Falsy(body.userId) /\ courseData.userId /= body.userId

PutStart(r, b) ==
  /\ Accept(r)
  /\ Begin(r, "put", b, "read")
  /\ UNCHANGED <<courses, clock, lanes, client>>

PutRead(r) ==
  /\ req[r].pc = "read" /\ req[r].kind = "put"
  /\ LET c == req[r].body.courseId IN
       IF ~Exists(c) THEN Finish(r, ErrorResponse(404))
       ELSE IF PutNotOwner(courses[c], req[r].body)
         THEN req' = [req EXCEPT ![r].pc = "done", ![r].snap = courses[c],
                                 ![r].resp = ErrorResponse(403)]
         ELSE req' = [req EXCEPT ![r].pc = "write", ![r].snap = courses[c]]
  /\ UNCHANGED <<courses, clock, lanes, client>>

PutWrite(r) ==
  /\ UNCHANGED <<lanes, client>>
  /\ req[r].pc = "write" /\ req[r].kind = "put"
  /\ Tick
  /\ LET c == req[r].body.courseId IN
       /\ courses' = [courses EXCEPT ![c] = PutUpdate(@, req[r].body, Now)]
       /\ Finish(r, Response(200, c, None, None))

\* ------------------------------------------------------- reads
\* GET /api/courses/[courseId]: the document goes to whoever asks.
GetDenied(courseData, viewer) == FALSE

\* courseData.status === "published" || (user && courseData.userId === user.uid)
PageDenied(courseData, viewer) ==
  ~(courseData.status = "published" \/ (viewer /= Undefined /\ courseData.userId = viewer))

ReadStart(r, kind, b) ==
  /\ Accept(r)
  /\ kind \in ReadKinds
  /\ Begin(r, kind, b, "read")
  /\ UNCHANGED <<courses, clock, lanes, client>>

\* getDoc and the visibility check; status 200 stands for the document
\* being handed over (the response body, or setCourse on a page).
ReadDeliver(r) ==
  /\ req[r].pc = "read" /\ req[r].kind \in ReadKinds
  /\ LET c == req[r].body.courseId
         denied == IF req[r].kind = "get" THEN GetDenied(courses[c], req[r].body.viewer)
                                          ELSE PageDenied(courses[c], req[r].body.viewer)
     IN IF ~Exists(c) THEN Finish(r, ErrorResponse(404))
        ELSE req' = [req EXCEPT ![r].pc = "done",
                                ![r].resp = IF denied THEN ErrorResponse(403)
                                            ELSE Response(200, c, None, None)]
  /\ UNCHANGED <<courses, clock, lanes, client>>

\* ------------------------------------------------------- finish page
\* The finish page as it is now, and the earlier one kept in the editor's file.
FinishKinds == {"finish", "finishEarlier"}

FinishBodies == [ courseId : {SeedId, MissingId}, userId : Users ]

\* updateDoc(courseRef, { status: "published", updatedAt }) of the earlier page
PublishUpdateUnstamped(d, now) ==
  [d EXCEPT !.status = "published", !.updatedAt = now]

\* chapter.content && chapter.content.length > 0
HasItems(field) == field /= None /\ Len(field[1]) > 0

\* getCompletionStatus of a loaded course
GetCompletionStatus(course) ==
  LET chapters == course.chapters[1]
      chaptersWithContent == Cardinality({ k \in 1..Len(chapters) : HasItems(chapters[k].content) })
      chaptersWithVideos ==
        Cardinality({ k \in 1..Len(chapters) : HasItems(chapters[k].youtubeVideos) })
  IN [ complete |-> Some(chaptersWithContent) = course.noOfChapters,
       chaptersWithContent |-> chaptersWithContent,
       chaptersWithVideos |-> chaptersWithVideos ]

\* The signed-in user opens the page.
FinishStart(r, kind, b) ==
  /\ Accept(r)
  /\ kind \in FinishKinds
  /\ Begin(r, kind, b, "read")
  /\ UNCHANGED <<courses, clock, lanes, client>>

\* fetchCourse: getDoc, the toasts for a missing course and for somebody
\* else's, else setCourse and the render with the completion status
\* (course.chapters.filter throws on a course without chapters).
FinishLoad(r) ==
  /\ req[r].pc = "read" /\ req[r].kind \in FinishKinds
  /\ LET c == req[r].body.courseId IN
       IF ~Exists(c) THEN Finish(r, ErrorResponse(404))
       ELSE IF NotOwner(courses[c], req[r].body.userId)
         THEN req' = [req EXCEPT ![r].pc = "done", ![r].snap = courses[c],
                                 ![r].resp = ErrorResponse(403)]
       ELSE IF courses[c].chapters = None
         THEN req' = [req EXCEPT ![r].pc = "done", ![r].snap = courses[c],
                                 ![r].resp = ErrorResponse(500)]
         ELSE req' = [req EXCEPT ![r].pc = "write", ![r].snap = courses[c],
                                 ![r].result = Some(GetCompletionStatus(courses[c]))]
  /\ UNCHANGED <<courses, clock, lanes, client>>

\* handlePublishCourse: the page writes to the store itself.
FinishPublish(r) ==
  /\ UNCHANGED <<lanes, client>>
  /\ req[r].pc = "write" /\ req[r].kind \in FinishKinds
  /\ Tick
  /\ LET c == req[r].body.courseId IN
       /\ courses' = [courses EXCEPT ![c] = IF req[r].kind = "finish"
                                              THEN PublishUpdate(@, Now)
                                              ELSE PublishUpdateUnstamped(@, Now)]
       /\ Finish(r, Response(200, c, None, None))

\* ------------------------------------------------------- explore listing
\* orderBy("createdAt", "desc") over a set of documents of the store.
RECURSIVE NewestFirst(_, _)
NewestFirst(store, ids) ==
  IF ids = {} THEN <<>>
  ELSE LET c == CHOOSE x \in ids : \A y \in ids : store[y].createdAt <= store[x].createdAt
       IN <<c>> \o NewestFirst(store, ids \ {c})

\* The query left without its where clause.
CoursesQueryAll(store) == NewestFirst(store, DOMAIN store)

\* query(collection(db, "courses"), where("status", "==", "published"),
\*       orderBy("createdAt", "desc"))
CoursesQuery(store) ==
  NewestFirst(store, { c \in DOMAIN store : store[c].status = "published" })

ExploreStart(r) ==
  /\ Accept(r)
  /\ Begin(r, "explore", [courseId |-> Undefined], "read")
  /\ UNCHANGED <<courses, clock, lanes, client>>

\* getDocs and setCourses(fetchedCourses): data is the listing, as ids.
ExploreDeliver(r) ==
  /\ req[r].pc = "read" /\ req[r].kind = "explore"
  /\ Finish(r, Response(200, Undefined, None, Some(CoursesQuery(courses))))
  /\ UNCHANGED <<courses, clock, lanes, client>>

\* ------------------------------------------------------- GET on the POST routes
PostRoutes == {"generate", "content", "video", "publish"}

\* The exported GET of each route file: three answer 405 with an error
\* body, the publish route answers 200 with a message naming the course.
GetAnswer(route, courseId) ==
  IF route = "publish" THEN Response(200, courseId, None, None)
                       ELSE ErrorResponse(405)

GetRoute(r, route, courseId) ==
  /\ Accept(r)
  /\ req' = [req EXCEPT ![r] = [IdleReq EXCEPT !.pc = "done", !.kind = "GET",
                                              !.body = [courseId |-> courseId, route |-> route],
                                              !.resp = GetAnswer(route, courseId)]]
  /\ UNCHANGED <<courses, clock, lanes, client>>

\* ------------------------------------------------------- failures
\* generateCourseContent / fetchYoutubeVideos throws: the outer catch.
CallFails(r) ==
  /\ req[r].pc = "call"
  /\ Finish(r, ErrorResponse(500))
  /\ UNCHANGED <<courses, clock, lanes, client>>

\* A publish whose write landed although the handler answers 500.
StoreFailsWritten(r) ==
  /\ req[r].pc \in {"read", "write"}
  /\ Finish(r, ErrorResponse(500))
  /\ IF req[r].pc = "write" /\ req[r].kind = "publish"
       THEN courses' = [courses EXCEPT ![CourseOf(r)] = PublishUpdate(@, clock)]
       ELSE courses' = courses
  /\ UNCHANGED <<clock, lanes, client>>

\* getDoc / updateDoc / addDoc throws: the outer catch, nothing is written.
StoreFails(r) ==
  /\ req[r].pc \in {"read", "write"}
  /\ Finish(r, ErrorResponse(500))
  /\ UNCHANGED <<courses, clock, lanes, client>>

\* A request arrives: the handler runs up to its first store or client call.
Arrive(r) ==
  \/ \E b \in GenerateBodies : GenerateStart(r, b)
  \/ \E b \in ContentBodies : ContentStart(r, b)
  \/ \E b \in VideoBodies : VideoStart(r, b)
  \/ \E b \in PublishBodies : PublishStart(r, b)
  \/ \E b \in PutBodies : PutStart(r, b)
  \/ \E k \in ReadKinds, b \in ReadBodies : ReadStart(r, k, b)
  \/ \E route \in PostRoutes : GetRoute(r, route, IdPool[1])
  \/ ExploreStart(r)

\* An awaited call of a request in flight completes.
Proceed(r) ==
  \/ \E t \in AITexts : GenerateReturn(r, t)
  \/ GenerateWrite(r)
  \/ ContentRead(r)
  \/ \E t \in AITexts : ContentReturn(r, t)
  \/ ContentWrite(r)
  \/ VideoRead(r)
  \/ \E i \in VideoItems : VideoReturn(r, i)
  \/ VideoWrite(r)
  \/ PublishRead(r)
  \/ PublishWrite(r)
  \/ PutRead(r)
  \/ PutWrite(r)
  \/ ReadDeliver(r)
  \/ ExploreDeliver(r)
  \/ CallFails(r)
  \/ StoreFails(r)

\* The whole HTTP surface, one request at a time.
Next == \E r \in Reqs : Arrive(r) \/ Proceed(r)

Spec == Init /\ [][Next]_vars

\* The chapter writers in flight together: the editor's requests for the
\* chapters of one course of its owner, whose reads and writes of the same
\* document interleave.  The course is one that generation produces.
RaceCourse ==
  NewCourse(GenerateBody("u1"), ExtractJSON(<<"{", "a", "b", "}">>), 1)

InitRace ==
  /\ courses = (IdPool[1] :> RaceCourse)
  /\ clock = 1
  /\ req = [r \in Reqs |-> IdleReq]
  /\ lanes = 2
  /\ ClientInit

EditorBodies == { ChapterBody("u1", IdPool[1], i) : i \in Indices }

\* What the model answers the editor: two section arrays and a text that
\* does not parse.
EditorTexts ==
  { <<"{", "a", "}">>, <<"x", "{", "a", "b", "d", "}", "x">>, <<"x", "x">> }

RaceArrive(r) ==
  \/ \E b \in EditorBodies : ContentStart(r, b)
  \/ \E b \in EditorBodies : VideoStart(r, b)

RaceProceed(r) ==
  \/ ContentRead(r)
  \/ \E t \in EditorTexts : ContentReturn(r, t)
  \/ ContentWrite(r)
  \/ VideoRead(r)
  \/ \E i \in VideoItems : VideoReturn(r, i)
  \/ VideoWrite(r)
  \/ CallFails(r)
  \/ StoreFails(r)

NextRace == \E r \in Reqs : RaceArrive(r) \/ RaceProceed(r)

SpecRace == InitRace /\ [][NextRace]_vars

\* The owner publishes while the editor's chapter requests are in flight.
PublishRaceArrive(r) ==
  \/ ContentStart(r, ChapterBody("u1", IdPool[1], 0))
  \/ VideoStart(r, ChapterBody("u1", IdPool[1], 0))
  \/ PublishStart(r, [userId |-> "u1", courseId |-> IdPool[1]])

PublishRaceProceed(r) ==
  \/ ContentRead(r)
  \/ \E t \in EditorTexts : ContentReturn(r, t)
  \/ ContentWrite(r)
  \/ VideoRead(r)
  \/ \E i \in VideoItems : VideoReturn(r, i)
  \/ VideoWrite(r)
  \/ PublishRead(r)
  \/ PublishWrite(r)
  \/ CallFails(r)
  \/ StoreFails(r)

NextPublishRace == \E r \in Reqs : PublishRaceArrive(r) \/ PublishRaceProceed(r)

SpecPublishRace == InitRace /\ [][NextPublishRace]_vars

\* The catalogue growing: the store holds a course made earlier, courses
\* are generated next to it, either is published by whoever asks, and the
\* explore page lists what is published.  One request at a time.
InitCatalogue ==
  /\ courses = (SeedId :> RaceCourse)
  /\ clock = 1
  /\ req = [r \in Reqs |-> IdleReq]
  /\ lanes = 1
  /\ ClientInit

CataloguePublishBodies == [ userId : Users, courseId : CourseIds \cup {SeedId} ]

CatalogueArrive(r) ==
  \/ \E b \in GenerateBodies : GenerateStart(r, b)
  \/ \E b \in CataloguePublishBodies : PublishStart(r, b)
  \/ ExploreStart(r)

CatalogueProceed(r) ==
  \/ \E t \in AITexts : GenerateReturn(r, t)
  \/ GenerateWrite(r)
  \/ PublishRead(r)
  \/ PublishWrite(r)
  \/ ExploreDeliver(r)
  \/ CallFails(r)
  \/ StoreFails(r)

NextCatalogue == \E r \in Reqs : CatalogueArrive(r) \/ CatalogueProceed(r)

SpecCatalogue == InitCatalogue /\ [][NextCatalogue]_vars

\* The owner fills the chapters of a course in the editor and opens the
\* finish page to publish it.  One request at a time.
FinishArrive(r) ==
  \/ \E i \in Indices : ContentStart(r, ChapterBody("u1", SeedId, i))
  \/ \E k \in FinishKinds, b \in FinishBodies : FinishStart(r, k, b)

FinishProceed(r) ==
  \/ ContentRead(r)
  \/ \E t \in EditorTexts : ContentReturn(r, t)
  \/ ContentWrite(r)
  \/ FinishLoad(r)
  \/ FinishPublish(r)
  \/ CallFails(r)
  \/ StoreFails(r)

NextFinish == \E r \in Reqs : FinishArrive(r) \/ FinishProceed(r)

SpecFinish == InitCatalogue /\ [][NextFinish]_vars

\* ------------------------------------------------------------ use-toast.ts
ToastIds == { ToString(i) : i \in 1..MaxToasts }
ToastTitles == {"t", "u"}

\* toasts.slice(0, n)
Slice(toasts, n) == SubSeq(toasts, 1, IF Len(toasts) < n THEN Len(toasts) ELSE n)

\* ADD_TOAST keeping every toast.
AddToastUnlimited(toasts, toast) == <<toast>> \o toasts

\* case "ADD_TOAST"
AddToast(toasts, toast) == Slice(<<toast>> \o toasts, TOAST_LIMIT)

\* The reducer on state.toasts; action.toast of UPDATE_TOAST carries a title.
reducer(state, action) ==
  LET toasts == state.toasts IN
  IF action.type = "ADD_TOAST"
    THEN [state EXCEPT !.toasts = AddToast(toasts, action.toast)]
  ELSE IF action.type = "UPDATE_TOAST"
    THEN [state EXCEPT !.toasts =
            [i \in DOMAIN toasts |->
               IF toasts[i].id = action.toast.id
                 THEN [toasts[i] EXCEPT !.title = action.toast.title]
                 ELSE toasts[i]]]
  ELSE IF action.type = "DISMISS_TOAST"
    THEN [state EXCEPT !.toasts =
            [i \in DOMAIN toasts |->
               IF toasts[i].id = action.toastId \/ action.toastId = Undefined
                 THEN [toasts[i] EXCEPT !.open = FALSE]
                 ELSE toasts[i]]]
  ELSE \* REMOVE_TOAST
    IF action.toastId = Undefined
      THEN [state EXCEPT !.toasts = <<>>]
      ELSE [state EXCEPT !.toasts = SelectSeq(toasts, LAMBDA t : t.id /= action.toastId)]

\* A timer set for every call.
AddToRemoveQueueAgain(queue, toastId) ==
  [ toastTimeouts |-> queue.toastTimeouts \cup {toastId},
    timers |-> Append(queue.timers, toastId) ]

\* addToRemoveQueue: one timer for an id the map does not hold yet.
AddToRemoveQueue(queue, toastId) ==
  IF toastId \in queue.toastTimeouts
    THEN queue
    ELSE [ toastTimeouts |-> queue.toastTimeouts \cup {toastId},
           timers |-> Append(queue.timers, toastId) ]

\* state.toasts.forEach((toast) => addToRemoveQueue(toast.id))
RECURSIVE ForEachToast(_, _)
ForEachToast(queue, toasts) ==
  IF toasts = <<>> THEN queue
  ELSE ForEachToast(AddToRemoveQueue(queue, Head(toasts).id), Tail(toasts))

\* The ids genId has given out.
Issued == { ToString(i) : i \in 1..count }

Shown(id) == \E i \in DOMAIN memoryState.toasts : memoryState.toasts[i].id = id
Pending(id) == Cardinality({ i \in DOMAIN timers : timers[i] = id })

\* toast(): genId and the ADD_TOAST it dispatches.  The counter stays far
\* below Number.MAX_SAFE_INTEGER, where genId wraps.
Toast(title) ==
  /\ count < MaxToasts
  /\ count' = count + 1
  /\ memoryState' = reducer(memoryState,
       [ type |-> "ADD_TOAST",
         toast |-> [id |-> ToString(count + 1), open |-> TRUE, title |-> title] ])
  /\ UNCHANGED <<toastTimeouts, timers>>

NoToast == UNCHANGED toastVars

pageVars == <<authVars, pathname, wizard, editor, flights>>

ToastShown(title) == Toast(title) /\ UNCHANGED <<server, pageVars>>

\* update() of a handle toast() gave out.
ToastUpdated(id, title) ==
  /\ id \in Issued
  /\ memoryState' = reducer(memoryState,
       [type |-> "UPDATE_TOAST", toast |-> [id |-> id, title |-> title]])
  /\ UNCHANGED <<count, toastTimeouts, timers, server, pageVars>>

\* dismiss(toastId?): the reducer's DISMISS_TOAST with its side effect.
ToastDismissed(toastId) ==
  /\ toastId = Undefined \/ toastId \in Issued
  /\ LET queue == [toastTimeouts |-> toastTimeouts, timers |-> timers]
         after == IF ~Falsy(toastId)
                    THEN AddToRemoveQueue(queue, toastId)
                    ELSE ForEachToast(queue, memoryState.toasts)
     IN /\ toastTimeouts' = after.toastTimeouts
        /\ timers' = after.timers
  /\ memoryState' = reducer(memoryState, [type |-> "DISMISS_TOAST", toastId |-> toastId])
  /\ UNCHANGED <<count, server, pageVars>>

\* The oldest timeout runs: all are set with the same TOAST_REMOVE_DELAY.
TimerFires ==
  /\ timers /= <<>>
  /\ toastTimeouts' = toastTimeouts \ {Head(timers)}
  /\ timers' = Tail(timers)
  /\ memoryState' = reducer(memoryState, [type |-> "REMOVE_TOAST", toastId |-> Head(timers)])
  /\ UNCHANGED <<count, server, pageVars>>

NextToast ==
  \/ \E t \in ToastTitles : ToastShown(t)
  \/ \E id \in ToastIds, t \in ToastTitles : ToastUpdated(id, t)
  \/ \E id \in ToastIds \cup {Undefined} : ToastDismissed(id)
  \/ TimerFires

SpecToast == Init /\ [][NextToast]_vars

\* setTimeout runs its callback once the delay has passed.
SpecToastLive == SpecToast /\ WF_vars(TimerFires)

\* ------------------------------------------------- create-course/page.tsx
STEPS == [CATEGORY |-> 0, TOPIC |-> 1, OPTIONS |-> 2]

\* The four category buttons; what is typed into the two text inputs.
WizardCategories == {"Development", "Design", "Marketing", "Others"}
WizardTyped == {"", "mine"}

SignedIn(u) == [user |-> u, userData |-> Null, loading |-> FALSE]

\* What the page shows for editing at its step.
WizardEdits ==
  IF wizard.step = STEPS.CATEGORY
    THEN { [category |-> c] : c \in WizardCategories }
           \cup IF wizard.courseData.category = "Others"
                  THEN { [customCategory |-> v] : v \in WizardTyped }
                  ELSE {}
  ELSE IF wizard.step = STEPS.TOPIC
    THEN { [topic |-> v] : v \in WizardTyped }
  ELSE {}

\* setCourseData((prev) => ({ ...prev, ...data }))
UpdateCourseData(data) ==
  /\ data \in WizardEdits
  /\ wizard' = [wizard EXCEPT !.courseData =
                  [f \in DOMAIN wizard.courseData |->
                     IF f \in DOMAIN data THEN data[f] ELSE wizard.courseData[f]]]
  /\ UNCHANGED <<server, toastVars, authVars, pathname, editor, flights>>

\* The Next button's disabled attribute.
NextDisabled ==
  \/ wizard.step = STEPS.CATEGORY /\ Falsy(wizard.courseData.category)
  \/ wizard.step = STEPS.TOPIC /\ Falsy(wizard.courseData.topic)

HandleNext ==
  /\ wizard.step < STEPS.OPTIONS /\ ~NextDisabled
  /\ wizard' = [wizard EXCEPT !.step = wizard.step + 1]
  /\ UNCHANGED <<server, toastVars, authVars, pathname, editor, flights>>

HandleBack ==
  /\ wizard.step > STEPS.CATEGORY
  /\ wizard' = [wizard EXCEPT !.step = wizard.step - 1]
  /\ UNCHANGED <<server, toastVars, authVars, pathname, editor, flights>>

\* The body handleSubmit sends; the fields the model does not edit keep
\* GenerateBody's values.
SubmitBody ==
  [ GenerateBody(auth.user) EXCEPT
      !.category = IF wizard.courseData.category = "Others"
                     THEN wizard.courseData.customCategory
                     ELSE wizard.courseData.category,
      !.topic = wizard.courseData.topic ]

\* handleSubmit up to its fetch.
HandleSubmit(r) ==
  /\ wizard.step = STEPS.OPTIONS /\ ~wizard.isLoading
  /\ IF auth.user = Null
       THEN /\ Toast("Authentication required")
            /\ UNCHANGED <<server, wizard>>
       ELSE /\ wizard' = [wizard EXCEPT !.isLoading = TRUE]
            /\ GenerateReceived(r, SubmitBody)
            /\ NoToast
  /\ UNCHANGED <<authVars, pathname, editor, flights>>

\* handleSubmit from the response on.
SubmitSettled(r) ==
  /\ wizard.isLoading
  /\ req[r].kind = "generate" /\ req[r].pc = "done"
  /\ IF req[r].resp.status = 200
       THEN /\ Toast("Course created successfully!")
            /\ pathname' = <<"/create-course", req[r].resp.courseId>>
       ELSE /\ Toast("Error creating course")
            /\ UNCHANGED pathname
  /\ wizard' = [wizard EXCEPT !.isLoading = FALSE]
  /\ UNCHANGED <<server, authVars, editor, flights>>

\* The page opened by a visitor or by a signed-in user.
InitWizard ==
  /\ courses = <<>>
  /\ clock = 0
  /\ req = [r \in Reqs |-> IdleReq]
  /\ lanes = 1
  /\ PagesInit
  /\ auth \in {NoUser, SignedIn("u1")}

NextWizard ==
  \/ \E data \in UNION { [{f} -> WizardCategories \cup WizardTyped] :
                           f \in {"category", "customCategory", "topic"} } :
       UpdateCourseData(data)
  \/ HandleNext
  \/ HandleBack
  \/ \E r \in Reqs :
       \/ HandleSubmit(r)
       \/ SubmitSettled(r)
       \/ \E t \in EditorTexts : GenerateReturn(r, t)
       \/ GenerateWrite(r)
       \/ CallFails(r)
       \/ StoreFails(r)

SpecWizard == InitWizard /\ [][NextWizard]_vars

\* ------------------------------------------- AuthProvider, ProtectedRoute
Callers == {"signIn", "listener"}
Protected == <<"/course">>
SignInPage == <<"/sign-in">>

\* The user document setDoc creates.
NewUser(uid, now) == [uid |-> uid, createdAt |-> Some(now), lastLogin |-> Some(now)]

\* The object the new-user branch hands to setUserData: its timestamps are
\* still serverTimestamp() sentinels.
LocalUser(uid) == [uid |-> uid, createdAt |-> None, lastLogin |-> None]

\* What ProtectedRoute returns.
ProtectedRouteEager(user, loading) ==
  IF user /= Null THEN "children" ELSE IF loading THEN "spinner" ELSE "nothing"

ProtectedRoute(user, loading) ==
  IF loading THEN "spinner"
  ELSE IF user = Null /\ ~loading THEN "nothing"
  ELSE "children"

\* router.push: leaving the protected page unmounts ProtectedRoute.
Push(path) ==
  /\ pathname' = path
  /\ view' = IF path = Protected THEN view ELSE NoView

Stay == UNCHANGED <<pathname, view>>

others == <<courses, req, lanes, toastVars, wizard, editor, flights>>

\* The page is opened by its address.
Visit(path) ==
  /\ pathname /= path
  /\ Push(path)
  /\ UNCHANGED <<clock, auth, users, saves, others>>

\* ProtectedRoute renders again when user or loading has changed.
Render ==
  /\ pathname = Protected
  /\ view.shows = "unmounted" \/ view.user /= auth.user \/ view.loading /= auth.loading
  /\ view' = [ shows |-> ProtectedRoute(auth.user, auth.loading),
               user |-> auth.user, loading |-> auth.loading, effect |-> TRUE ]
  /\ UNCHANGED <<clock, auth, users, saves, pathname, others>>

\* ProtectedRoute's effect, with the user and loading of its render.
Effect ==
  /\ view.effect
  /\ IF ~view.loading /\ view.user = Null
       THEN pathname' = SignInPage /\ view' = NoView
       ELSE view' = [view EXCEPT !.effect = FALSE] /\ UNCHANGED pathname
  /\ UNCHANGED <<clock, auth, users, saves, others>>

\* The sign-in page sends a signed-in user on.
SignInRender ==
  /\ pathname = SignInPage
  /\ auth.user /= Null /\ ~auth.loading
  /\ Push(<<"/dashboard">>)
  /\ UNCHANGED <<clock, auth, users, saves, others>>

\* signInWithGoogle up to signInWithPopup; the button is disabled while the
\* call is under way.
SignInWithGoogle ==
  /\ pathname = SignInPage
  /\ saves.signIn.pc = "idle"
  /\ auth' = [auth EXCEPT !.loading = TRUE]
  /\ saves' = [saves EXCEPT !.signIn.pc = "popup"]
  /\ Stay
  /\ UNCHANGED <<clock, users, others>>

\* signInWithPopup resolves: the caller goes on to saveUserToFirestore and
\* the auth state listener is notified.
PopupResolves(u) ==
  /\ saves.signIn.pc = "popup" /\ saves.listener.pc = "idle"
  /\ saves' = [ signIn |-> [pc |-> "read", user |-> u],
                listener |-> [pc |-> "notified", user |-> u] ]
  /\ Stay
  /\ UNCHANGED <<clock, auth, users, others>>

\* signInWithPopup rejects: catch, finally.
PopupFails ==
  /\ saves.signIn.pc = "popup"
  /\ saves' = [saves EXCEPT !.signIn = IdleRun]
  /\ auth' = [auth EXCEPT !.loading = FALSE]
  /\ Stay
  /\ UNCHANGED <<clock, users, others>>

\* The onAuthStateChanged callback up to its await.
ListenerFires ==
  /\ saves.listener.pc = "notified"
  /\ IF saves.listener.user /= Null
       THEN /\ auth' = [auth EXCEPT !.user = saves.listener.user]
            /\ saves' = [saves EXCEPT !.listener.pc = "read"]
       ELSE /\ auth' = [user |-> Null, userData |-> Null, loading |-> FALSE]
            /\ saves' = [saves EXCEPT !.listener = IdleRun]
  /\ Stay
  /\ UNCHANGED <<clock, users, others>>

\* saveUserToFirestore: getDoc and the branch on userSnap.exists().
SaveRead(k) ==
  /\ saves[k].pc = "read"
  /\ saves' = [saves EXCEPT ![k].pc =
                 IF saves[k].user \in DOMAIN users THEN "merge" ELSE "create"]
  /\ Stay
  /\ UNCHANGED <<clock, auth, users, others>>

\* setDoc(userRef, { lastLogin }, { merge: true })
SaveMerge(k) ==
  /\ saves[k].pc = "merge"
  /\ Tick
  /\ users' = [users EXCEPT ![saves[k].user].lastLogin = Some(Now)]
  /\ saves' = [saves EXCEPT ![k].pc = "refresh"]
  /\ Stay
  /\ UNCHANGED <<auth, others>>

\* The second getDoc and setUserData.
SaveRefresh(k) ==
  /\ saves[k].pc = "refresh"
  /\ auth' = [auth EXCEPT !.userData = users[saves[k].user]]
  /\ saves' = [saves EXCEPT ![k].pc = "saved"]
  /\ Stay
  /\ UNCHANGED <<clock, users, others>>

\* setDoc(userRef, userData) and setUserData(userData)
SaveCreate(k) ==
  /\ saves[k].pc = "create"
  /\ Tick
  /\ users' = [ u \in DOMAIN users \cup {saves[k].user} |->
                  IF u = saves[k].user THEN NewUser(u, Now) ELSE users[u] ]
  /\ auth' = [auth EXCEPT !.userData = LocalUser(saves[k].user)]
  /\ saves' = [saves EXCEPT ![k].pc = "saved"]
  /\ Stay
  /\ UNCHANGED others

\* A Firestore call of the run rejects: the caller's catch, then what
\* follows it.
SaveFails(k) ==
  /\ saves[k].pc \in {"read", "merge", "create", "refresh"}
  /\ saves' = [saves EXCEPT ![k] = IdleRun]
  /\ auth' = [auth EXCEPT !.loading = FALSE]
  /\ Stay
  /\ UNCHANGED <<clock, users, others>>

\* signInWithGoogle after saveUserToFirestore: router.push, finally.
SignInDone ==
  /\ saves.signIn.pc = "saved"
  /\ saves' = [saves EXCEPT !.signIn = IdleRun]
  /\ auth' = [auth EXCEPT !.loading = FALSE]
  /\ Push(<<"/dashboard">>)
  /\ UNCHANGED <<clock, users, others>>

\* The callback after saveUserToFirestore.
ListenerDone ==
  /\ saves.listener.pc = "saved"
  /\ saves' = [saves EXCEPT !.listener = IdleRun]
  /\ auth' = [auth EXCEPT !.loading = FALSE]
  /\ Stay
  /\ UNCHANGED <<clock, users, others>>

\* signOut: firebaseSignOut notifies the listener, then router.push("/").
SignOut ==
  /\ auth.user /= Null
  /\ saves.listener.pc = "idle" /\ saves.signIn.pc = "idle"
  /\ saves' = [saves EXCEPT !.listener = [pc |-> "notified", user |-> Null]]
  /\ Push(<<"/">>)
  /\ UNCHANGED <<clock, auth, users, others>>

\* A protected page is opened, by a visitor or by a user whose session the
\* browser has kept: onAuthStateChanged reports who is signed in.
InitAuth ==
  /\ courses = <<>>
  /\ req = [r \in Reqs |-> IdleReq]
  /\ lanes = 1
  /\ count = 0
  /\ memoryState = [toasts |-> <<>>]
  /\ toastTimeouts = {}
  /\ timers = <<>>
  /\ wizard = NewWizard
  /\ editor = NewEditor
  /\ flights = <<>>
  /\ auth = NoUser
  /\ view = NoView
  /\ pathname = Protected
  /\ \E u \in {Null, "u1"} :
       /\ saves = [NoSaves EXCEPT !.listener = [pc |-> "notified", user |-> u]]
       /\ IF u = Null
            THEN users = <<>> /\ clock = 0
            ELSE users = ("u1" :> NewUser("u1", 1)) /\ clock = 1

NextAuth ==
  \/ \E path \in {Protected, SignInPage} : Visit(path)
  \/ Render
  \/ Effect
  \/ SignInRender
  \/ SignInWithGoogle
  \/ PopupResolves("u1")
  \/ PopupFails
  \/ ListenerFires
  \/ \E k \in Callers :
       SaveRead(k) \/ SaveMerge(k) \/ SaveRefresh(k) \/ SaveCreate(k) \/ SaveFails(k)
  \/ SignInDone
  \/ ListenerDone
  \/ SignOut

SpecAuth == InitAuth /\ [][NextAuth]_vars

\* ------------------------------------- create-course/[courseId]/edit/page.tsx
\* What the owner types into a chapter's name.
EditedName == "edited"

\* The model's answer to the editor's request, and the videos found.
EditorText == <<"{", "a", "}">>
EditorVideos == Some(<<"v1">>)

LocalChapters == editor.course[1].chapters[1]

\* useEffect: fetchCourse, for the owner.
FetchCourse ==
  /\ editor.course = None
  /\ auth.user /= Null
  /\ Exists(SeedId)
  /\ IF NotOwner(courses[SeedId], auth.user)
       THEN /\ Toast("Access denied")
            /\ pathname' = <<"/dashboard">>
            /\ UNCHANGED editor
       ELSE /\ editor' = [editor EXCEPT !.course = Some(courses[SeedId])]
            /\ NoToast
            /\ UNCHANGED pathname
  /\ UNCHANGED <<server, authVars, wizard, flights>>

HandleChapterChange(index) ==
  /\ editor.course /= None
  /\ index + 1 \in DOMAIN LocalChapters
  /\ index /= editor.activeChapter
  /\ editor' = [editor EXCEPT !.activeChapter = index]
  /\ UNCHANGED <<server, toastVars, authVars, pathname, wizard, flights>>

\* setCourse({ ...course, chapters }) with chapters[index] = chapter
SetChapter(course, index, chapter) ==
  [course EXCEPT !.chapters = Some(ArraySet(course.chapters[1], index, chapter))]

\* The Editor's handleChange on the name, handed to handleUpdateChapter.
HandleUpdateChapter ==
  /\ editor.course /= None
  /\ editor.activeChapter + 1 \in DOMAIN LocalChapters
  /\ LET chapter == LocalChapters[editor.activeChapter + 1] IN
       editor' = [editor EXCEPT !.course =
                    Some(SetChapter(editor.course[1], editor.activeChapter,
                                    [chapter EXCEPT !.chapterName = EditedName]))]
  /\ UNCHANGED <<server, toastVars, authVars, pathname, wizard, flights>>

\* The body both handlers send for the active chapter.
EditorBody ==
  [ userId |-> auth.user, courseId |-> SeedId,
    chapterIndex |-> Some(editor.activeChapter),
    chapterName |-> LocalChapters[editor.activeChapter + 1].chapterName,
    courseTopic |-> editor.course[1].topic,
    difficulty |-> editor.course[1].level ]

\* The handler waiting for its response, with the course and the chapter
\* index of the render that started it.
Flight(kind) ==
  [kind |-> kind, course |-> editor.course[1], chapterIndex |-> editor.activeChapter]

\* handleGenerateContent / handleFetchYoutubeVideos up to the fetch.
EditorRequest(r, kind) ==
  /\ editor.course /= None /\ auth.user /= Null
  /\ editor.activeChapter + 1 \in DOMAIN LocalChapters
  /\ r \notin DOMAIN flights
  /\ count + Cardinality(DOMAIN flights) < MaxFlights
  /\ IF kind = "content" THEN ContentReceived(r, EditorBody)
                         ELSE VideoReceived(r, EditorBody)
  /\ flights' = (r :> Flight(kind)) @@ flights
  /\ editor' = [editor EXCEPT !.isSaving = TRUE]
  /\ UNCHANGED <<toastVars, authVars, pathname, wizard>>

HandleGenerateContent(r) == EditorRequest(r, "content")

HandleFetchYoutubeVideos(r) == EditorRequest(r, "video")

\* The response merged into the course as it is now.
MergedIntoCurrent(flight, data) ==
  LET chapter == ArrayGet(LocalChapters, flight.chapterIndex) IN
  SetChapter(editor.course[1], flight.chapterIndex,
             IF flight.kind = "content" THEN [chapter EXCEPT !.content = data]
                                        ELSE [chapter EXCEPT !.youtubeVideos = data])

\* The response merged into the course and the chapter the handler started
\* with.
Merged(flight, data) ==
  LET chapter == ArrayGet(flight.course.chapters[1], flight.chapterIndex) IN
  SetChapter(flight.course, flight.chapterIndex,
             IF flight.kind = "content" THEN [chapter EXCEPT !.content = data]
                                        ELSE [chapter EXCEPT !.youtubeVideos = data])

\* Either handler from the response on.
ResponseApplied(r) ==
  /\ r \in DOMAIN flights
  /\ req[r].pc = "done"
  /\ IF req[r].resp.status = 200
       THEN /\ editor' = [editor EXCEPT !.course = Some(Merged(flights[r], req[r].resp.data)),
                                        !.isSaving = FALSE]
            /\ Toast(IF flights[r].kind = "content"
                       THEN "Content generated successfully!"
                       ELSE "YouTube videos fetched successfully!")
       ELSE /\ editor' = [editor EXCEPT !.isSaving = FALSE]
            /\ Toast(IF flights[r].kind = "content"
                       THEN "Error generating content"
                       ELSE "Error fetching YouTube videos")
  /\ flights' = [q \in DOMAIN flights \ {r} |-> flights[q]]
  /\ UNCHANGED <<server, authVars, pathname, wizard>>

\* The owner has opened the editor on a course made earlier; its two
\* buttons are not disabled while a request is under way.
InitEditor ==
  /\ courses = (SeedId :> RaceCourse)
  /\ clock = 1
  /\ req = [r \in Reqs |-> IdleReq]
  /\ lanes = 2
  /\ PagesInit
  /\ auth = SignedIn("u1")

NextEditor ==
  \/ FetchCourse
  \/ \E i \in Indices : HandleChapterChange(i)
  \/ HandleUpdateChapter
  \/ \E r \in Reqs :
       \/ HandleGenerateContent(r)
       \/ HandleFetchYoutubeVideos(r)
       \/ ResponseApplied(r)
       \/ ContentRead(r)
       \/ ContentReturn(r, EditorText)
       \/ ContentWrite(r)
       \/ VideoRead(r)
       \/ VideoReturn(r, EditorVideos)
       \/ VideoWrite(r)
       \/ CallFails(r)

SpecEditor == InitEditor /\ [][NextEditor]_vars

\* ------------------------------------------------------------------ claims
OwnerChecked == {"content", "video", "publish"}

\* C1: on chapter-content, video-fetch and publish, a request whose userId
\* differs from the userId of the course it read is answered 403 and the
\* stored course is the document as it was read.
C1_NonOwnerGets403 ==
  \A r \in Reqs :
    ( /\ req[r].kind \in OwnerChecked
      /\ req[r].snap /= NoSnap
      /\ req[r].snap.userId /= req[r].body.userId )
    => /\ req[r].pc = "done"
       /\ req[r].resp.status = 403
       /\ courses[CourseOf(r)] = req[r].snap

C1_Witness ==
  \E r \in Reqs :
    /\ req[r].kind = "publish" /\ req[r].pc = "done" /\ req[r].resp.status = 403
    /\ req[r].snap /= NoSnap /\ req[r].snap.userId /= req[r].body.userId
    /\ courses[CourseOf(r)].status = "draft"

\* C2: a PUT whose body userId is not the course's userId (a body without
\* userId or with an empty one included) never changes the course document.
C2_PutByNonOwnerWritesNothing ==
  [][ \A r \in Reqs :
        ( /\ req[r].kind = "put" /\ req[r].pc = "write"
          /\ req[r].body.userId /= courses[CourseOf(r)].userId )
        => courses'[CourseOf(r)] = courses[CourseOf(r)] ]_vars

\* C3: the userId of a course never changes.
C3_UserIdNeverChanges ==
  [][ \A c \in DOMAIN courses : courses'[c].userId = courses[c].userId ]_vars

\* C4: a published course stays published.
C4_StatusMonotonic ==
  [][ \A c \in DOMAIN courses :
        courses[c].status = "published" => courses'[c].status = "published" ]_vars

\* C5: a read hands the course over exactly when the course is published or
\* the requester is its owner; a draft never goes to anybody else.
C5_DraftOnlyToOwner ==
  [][ \A r \in Reqs :
        ( /\ req[r].kind \in ReadKinds /\ req[r].pc = "read"
          /\ req'[r].pc = "done" /\ req'[r].resp.status \in {200, 403} )
        => ( req'[r].resp.status = 200
             <=> \/ courses[CourseOf(r)].status = "published"
                 \/ courses[CourseOf(r)].userId = req[r].body.viewer ) ]_vars

IndexOf(r) == req[r].body.chapterIndex[1]
Succeeded(r, kind) ==
  req[r].kind = kind /\ req[r].pc = "done" /\ req[r].resp.status = 200
\* The step in which request r of this kind writes and answers 200.
Writes(r, kind) ==
  /\ req[r].kind = kind /\ req[r].pc = "write"
  /\ req'[r].pc = "done" /\ req'[r].resp.status = 200

\* C6: two chapter-content requests for different indices of one course that
\* both read before either wrote both answer 200, and the stored chapters
\* array is what the later writer built from its own read: at the other
\* writer's index the content is the one that was read, not the one written.
C6_LastWriterWins ==
  \A r \in Reqs : \A q \in Reqs \ {r} :
    ( /\ Succeeded(r, "content") /\ Succeeded(q, "content")
      /\ CourseOf(r) = CourseOf(q) /\ IndexOf(r) /= IndexOf(q)
      /\ req[r].snap = req[q].snap )
    => LET stored == courses[CourseOf(r)].chapters[1] IN
       \E w \in {r, q} :
         LET l == CHOOSE x \in {r, q} : x /= w
             read == req[w].snap.chapters[1] IN
         /\ stored = MergeContent(read, IndexOf(w), req[w].result)
         /\ ArrayGet(stored, IndexOf(l)).content = ArrayGet(read, IndexOf(l)).content

C6_Witness ==
  \E r \in Reqs : \E q \in Reqs \ {r} :
    /\ Succeeded(r, "content") /\ Succeeded(q, "content")
    /\ CourseOf(r) = CourseOf(q) /\ IndexOf(r) /= IndexOf(q)
    /\ req[r].snap = req[q].snap
    /\ LET stored == courses[CourseOf(r)].chapters[1] IN
         /\ IndexOf(r) < Len(stored) /\ IndexOf(q) < Len(stored)
         /\ stored[IndexOf(r) + 1].content = req[r].result
         /\ req[q].result /= None
         /\ stored[IndexOf(q) + 1].content = None

\* C7: the owner's publish of an already published course is accepted and
\* answered 200; it leaves status published, stamps publishedAt and
\* updatedAt anew and changes no other field.
C7_RepublishRestamps ==
  [][ \A r \in Reqs :
        LET c == CourseOf(r) IN
        /\ ( /\ req[r].kind = "publish" /\ req[r].pc = "read"
              /\ req'[r].snap /= NoSnap
              /\ courses[c].status = "published"
              /\ courses[c].userId = req[r].body.userId )
            => req'[r].pc = "write"
        /\ ( /\ req[r].kind = "publish" /\ req[r].pc = "write"
              /\ req[r].snap.status = "published"
              /\ req'[r].pc = "done" /\ req'[r].resp.status /= 500 )
            => /\ req'[r].resp.status = 200
               /\ courses'[c].status = "published"
               /\ courses'[c].publishedAt = Some(clock')
               /\ courses'[c].publishedAt /= courses[c].publishedAt
               /\ courses'[c].updatedAt = clock'
               /\ courses'[c].updatedAt > courses[c].updatedAt
               /\ \A f \in DOMAIN courses[c] \ {"publishedAt", "updatedAt"} :
                     courses'[c][f] = courses[c][f] ]_vars

C7_Witness ==
  \E r \in Reqs :
    /\ Succeeded(r, "publish")
    /\ req[r].snap.status = "published" /\ req[r].snap.publishedAt /= None
    /\ courses[CourseOf(r)].publishedAt = Some(clock)
    /\ courses[CourseOf(r)].publishedAt[1] > req[r].snap.publishedAt[1]

\* C8: a generate request that succeeds stores a new course with status
\* draft, the request's userId and the chapters of the parsed response
\* member for member; a chapter count other than chapterCount is no error.
C8_GenerateStoresDraft ==
  [][ \A r \in Reqs :
        /\ ( req[r].kind = "generate" /\ req[r].pc = "write" /\ req'[r].pc = "done"
              /\ req'[r].resp.status /= 500 )
            => req'[r].resp.status = 200
        /\ Writes(r, "generate")
            => LET c == req'[r].resp.courseId
                   parsed == req[r].result[1].items IN
               /\ c \notin DOMAIN courses /\ c \in DOMAIN courses'
               /\ courses'[c].status = "draft"
               /\ courses'[c].userId = req[r].body.userId
               /\ parsed = None <=> courses'[c].chapters = None
               /\ parsed /= None
                    => /\ Len(courses'[c].chapters[1]) = Len(parsed[1])
                       /\ \A i \in 1..Len(parsed[1]) :
                             courses'[c].chapters[1][i] = ParsedChapter(parsed[1][i]) ]_vars

C8_Witness ==
  \E r \in Reqs :
    /\ Succeeded(r, "generate")
    /\ LET d == courses[req[r].resp.courseId] IN
         /\ d.status = "draft" /\ d.userId = "u2"
         /\ d.chapters /= None
         /\ Len(d.chapters[1]) /= req[r].body.chapterCount[1]

\* C9 as claimed: a successful chapter-content request with an in-range
\* index changes, in the stored document, chapters[chapterIndex].content and
\* updatedAt and nothing else.
C9_OnlyContentChanges ==
  [][ \A r \in Reqs :
        LET c == CourseOf(r) IN
        ( Writes(r, "content") /\ IndexOf(r) < Len(courses[c].chapters[1]) )
        => /\ courses'[c].chapters =
                Some([courses[c].chapters[1] EXCEPT ![IndexOf(r) + 1].content = req[r].result])
           /\ \A f \in DOMAIN courses[c] \ {"chapters", "updatedAt"} :
                 courses'[c][f] = courses[c][f] ]_vars

\* C9 amended: the request writes the chapters array it read with only
\* chapters[chapterIndex].content replaced by the parsed sections, and
\* updatedAt; no other field is written.  The stored chapters outside that
\* content are unchanged when no write landed between its read and its write.
C9_OnlyContentReplacedInRead ==
  [][ \A r \in Reqs :
        LET c == CourseOf(r)
            read == req[r].snap.chapters[1] IN
        ( Writes(r, "content") /\ IndexOf(r) < Len(read) )
        => /\ courses'[c].chapters =
                Some([read EXCEPT ![IndexOf(r) + 1].content = req[r].result])
           /\ courses'[c].updatedAt = clock' /\ courses'[c].updatedAt > courses[c].updatedAt
           /\ \A f \in DOMAIN courses[c] \ {"chapters", "updatedAt"} :
                 courses'[c][f] = courses[c][f]
           /\ courses[c].chapters = req[r].snap.chapters
                => \A k \in 1..Len(read) :
                     /\ k /= IndexOf(r) + 1 => courses'[c].chapters[1][k] = courses[c].chapters[1][k]
                     /\ \A f \in DOMAIN read[k] \ {"content"} :
                           courses'[c].chapters[1][k][f] = courses[c].chapters[1][k][f] ]_vars

C9_Witness ==
  \E r \in Reqs :
    /\ Succeeded(r, "content")
    /\ LET read == req[r].snap.chapters[1]
           stored == courses[CourseOf(r)].chapters[1] IN
         /\ IndexOf(r) < Len(read)
         /\ read[IndexOf(r) + 1].youtubeVideos /= None
         /\ read[IndexOf(r) + 1].content /= req[r].result
         /\ stored = [read EXCEPT ![IndexOf(r) + 1].content = req[r].result]

\* C10: a successful video-fetch sets chapters[chapterIndex].youtubeVideos to
\* exactly its own identifier sequence, whatever was stored there by an
\* earlier fetch, and leaves the chapter's other fields as they were.
C10_VideosReplaced ==
  [][ \A r \in Reqs :
        Writes(r, "video")
        => LET c == CourseOf(r)
               old == ArrayGet(courses[c].chapters[1], IndexOf(r))
               new == ArrayGet(courses'[c].chapters[1], IndexOf(r)) IN
           /\ new.youtubeVideos = req[r].result
           /\ \A f \in DOMAIN old \ {"youtubeVideos"} : new[f] = old[f] ]_vars

C10_Witness ==
  \E r \in Reqs :
    /\ Succeeded(r, "video")
    /\ LET was == ArrayGet(req[r].snap.chapters[1], IndexOf(r))
           is == ArrayGet(courses[CourseOf(r)].chapters[1], IndexOf(r)) IN
         /\ was.youtubeVideos /= None
         /\ was.youtubeVideos /= req[r].result
         /\ is.youtubeVideos = req[r].result
         /\ is.content = was.content

\* C11: a chapter-content request whose model response does not parse as
\* JSON (plain prose without braces, for one) is answered 500, and the
\* course document, chapters[chapterIndex].content included, is the document
\* the request read.
C11_ParseFailureLeavesCourse ==
  \A r \in Reqs :
    ( /\ req[r].kind = "content" /\ req[r].text /= None
      /\ ExtractJSON(req[r].text[1]) = ParseError )
    => /\ req[r].pc = "done"
       /\ req[r].resp.status = 500
       /\ courses[CourseOf(r)] = req[r].snap
       /\ req[r].snap.chapters /= None
            => ArrayGet(courses[CourseOf(r)].chapters[1], IndexOf(r)).content
                 = ArrayGet(req[r].snap.chapters[1], IndexOf(r)).content

C11_Witness ==
  \E r \in Reqs :
    /\ req[r].kind = "content" /\ req[r].pc = "done" /\ req[r].resp = ParseFailure
    /\ req[r].text = Some(<<"x", "x">>)
    /\ courses[CourseOf(r)].chapters /= None
    /\ IndexOf(r) < Len(courses[CourseOf(r)].chapters[1])
    /\ ArrayGet(courses[CourseOf(r)].chapters[1], IndexOf(r)).content /= None

\* C12: the extraction in course generation and chapter-content generation
\* takes the first balanced-brace span of the model's text and parses it: a
\* text whose first balanced span is a valid JSON object, whatever follows
\* it, is parsed to that object and the request does not fail on parsing.
C12_FirstBalancedSpanParsed ==
  LET Span(t) ==
        LET f == FirstBrace(t)
            Closes(l) == Depth(SubSeq(t, f, l), l - f + 1) = 0
        IN IF f = 0 \/ ~\E l \in (f + 1)..Len(t) : Closes(l) THEN NoMatch
           ELSE SubSeq(t, f, CHOOSE l \in (f + 1)..Len(t) :
                                Closes(l) /\ \A k \in (f + 1)..(l - 1) : ~Closes(k))
  IN \A r \in Reqs :
       ( req[r].kind \in {"generate", "content"} /\ req[r].text /= None )
       => LET span == Span(req[r].text[1]) IN
          ( span /= NoMatch /\ JSONParse(span) /= ParseError )
          => /\ req[r].resp /= ParseFailure
             /\ req[r].kind = "generate" => req[r].result = Some(JSONParse(span))
             /\ (req[r].kind = "content" /\ req[r].snap.chapters /= None)
                  => req[r].result = JSONParse(span).items

\* C13: a GET request to each POST-only route (generate course, chapter
\* content, fetch videos, publish) is answered 405 and changes no document.
C13_GetAnswered405 ==
  [][ \A r \in Reqs :
        ( req'[r] /= req[r] /\ req'[r].kind = "GET" /\ req'[r].body.route \in PostRoutes )
        => req'[r].resp.status = 405 /\ courses' = courses ]_vars

\* C14: a request that lacks a required field (generate: userId, category,
\* topic, difficulty, duration; content: userId, courseId, chapterIndex,
\* chapterName, courseTopic, difficulty; video: the same without difficulty;
\* publish: userId) is answered 400 on arrival: it never reads the store,
\* never calls the AI or search client and writes nothing.
C14_MissingFieldRejected ==
  [][ LET Required(kind) ==
            IF kind = "generate"
              THEN {"userId", "category", "topic", "difficulty", "duration"}
            ELSE IF kind = "content"
              THEN {"userId", "courseId", "chapterIndex", "chapterName", "courseTopic",
                    "difficulty"}
            ELSE IF kind = "video"
              THEN {"userId", "courseId", "chapterIndex", "chapterName", "courseTopic"}
            ELSE {"userId"}
          Absent(b, f) == IF f = "chapterIndex" THEN b[f] = None ELSE b[f] = Undefined
      IN \A r \in Reqs :
           ( /\ Free(r) /\ req'[r] /= req[r]
             /\ req'[r].kind \in {"generate", "content", "video", "publish"}
             /\ \E f \in Required(req'[r].kind) : Absent(req'[r].body, f) )
           => /\ req'[r].pc = "done"
              /\ req'[r].resp = ErrorResponse(400)
              /\ req'[r].snap = NoSnap /\ req'[r].text = None /\ req'[r].result = None
              /\ courses' = courses ]_vars

C14_Witness ==
  \E r \in Reqs :
    /\ req[r].kind = "content" /\ req[r].body.difficulty = Undefined
    /\ req[r].pc = "done" /\ req[r].resp.status = 400
    /\ req[r].snap = NoSnap
    /\ Exists(CourseOf(r))

\* C15: in a chapter-content or video-fetch request the steps come in the
\* order store read, ownership check, external call, store write: the client
\* is called only from the read of an existing course by its owner, the
\* write is issued only after the call returned, the store changes only in
\* the write step, and a request answered 400, 403 or 404 never called.
C15_ReadCallWriteOrder ==
  [][ /\ \A r \in Reqs :
           ( req'[r].kind \in {"content", "video"} /\ req'[r].pc /= req[r].pc )
           => /\ req'[r].pc = "call"
                   => /\ req[r].pc = "read" /\ req[r].kind = req'[r].kind
                      /\ Exists(CourseOf(r))
                      /\ courses[CourseOf(r)].userId = req[r].body.userId
                      /\ req'[r].snap = courses[CourseOf(r)]
                      /\ courses' = courses
              /\ req'[r].pc = "write"
                   => /\ req[r].pc = "call" /\ req[r].kind = req'[r].kind
                      /\ req'[r].result /= req[r].result \/ req'[r].text /= req[r].text
                      /\ courses' = courses
              /\ ( req'[r].pc = "done" /\ req'[r].resp.status \in {400, 403, 404} )
                   => req[r].pc \in {"idle", "done", "read"}
      /\ courses' /= courses
           => \E r \in Reqs : req[r].pc = "write" /\ req'[r].pc = "done" ]_vars

C15_Witness ==
  \E r \in Reqs :
    /\ req[r].kind = "video" /\ req[r].pc = "write"
    /\ req[r].snap /= NoSnap /\ req[r].snap.userId = req[r].body.userId
    /\ req[r].result /= None
    /\ courses[CourseOf(r)] = req[r].snap

\* C16: the explore listing holds exactly the courses whose status is
\* published at the time of the query, so no draft is ever in it, and once
\* a publish request of the owner has succeeded the course is in the result
\* set of the listing query.
C16_ListingOnlyPublished ==
  [][ \A r \in Reqs :
        /\ ( req[r].kind = "explore" /\ req[r].pc = "read" /\ req'[r].resp.status = 200 )
            => LET listing == req'[r].resp.data[1] IN
               /\ \A i \in 1..Len(listing) : courses[listing[i]].status = "published"
               /\ \A c \in DOMAIN courses :
                     courses[c].status = "draft" => \A i \in 1..Len(listing) : listing[i] /= c
               /\ \A c \in DOMAIN courses :
                     courses[c].status = "published" => \E i \in 1..Len(listing) : listing[i] = c
        /\ Writes(r, "publish")
            => \E i \in 1..Len(CoursesQuery(courses')) :
                  CoursesQuery(courses')[i] = CourseOf(r) ]_vars

C16_Witness ==
  \E r \in Reqs :
    /\ Succeeded(r, "explore")
    /\ req[r].resp.data = Some(<<IdPool[1]>>)
    /\ courses[IdPool[1]].status = "published" /\ courses[IdPool[1]].publishedAt /= None
    /\ courses[SeedId].status = "draft"

\* C17: no partial success in generate-course, chapter-content, video-fetch
\* and publish: a request that ends after its external call or its store
\* write failed is answered 500 with an error body {error: message} and the
\* store is as it was; a success body is sent only by the step that wrote.
C17_NoPartialSuccess ==
  [][ \A r \in Reqs :
        ( /\ req[r].kind \in {"generate", "content", "video", "publish"}
          /\ req[r].pc \in {"call", "write"} /\ req'[r].pc = "done" )
        => /\ req'[r].resp.status \in {200, 500}
           /\ req[r].pc = "call" => req'[r].resp.status = 500
           /\ req'[r].resp.status = 500
                => /\ req'[r].resp.error /= Undefined
                   /\ req'[r].resp.data = None /\ req'[r].resp.courseId = Undefined
                   /\ courses' = courses
           /\ req'[r].resp.status = 200
                => /\ req[r].pc = "write"
                   /\ req'[r].resp.error = Undefined
                   /\ courses' /= courses ]_vars

C17_Witness ==
  \E r \in Reqs :
    /\ req[r].kind = "content" /\ req[r].pc = "done"
    /\ req[r].resp = ErrorResponse(500)
    /\ req[r].result /= None
    /\ courses[CourseOf(r)] = req[r].snap
    /\ ArrayGet(courses[CourseOf(r)].chapters[1], IndexOf(r)).content /= req[r].result

\* C18: a generate-course request adds exactly one course document when it
\* succeeds and none when it fails (validation, parsing, the model or the
\* store), and every course document that was there before is unchanged.
C18_GenerateAddsOneCourse ==
  [][ \A r \in Reqs :
        ( req'[r] /= req[r] /\ req'[r].kind = "generate" )
        => IF req'[r].pc = "done" /\ req'[r].resp.status = 200
             THEN /\ Cardinality(DOMAIN courses') = Cardinality(DOMAIN courses) + 1
                  /\ DOMAIN courses' = DOMAIN courses \cup {req'[r].resp.courseId}
                  /\ \A c \in DOMAIN courses : courses'[c] = courses[c]
             ELSE courses' = courses ]_vars

C18_Witness ==
  \E r \in Reqs :
    /\ Succeeded(r, "generate")
    /\ DOMAIN courses = {SeedId, req[r].resp.courseId}
    /\ req[r].resp.courseId /= SeedId
    /\ courses[SeedId].status = "published"
    /\ courses[SeedId].createdAt < courses[req[r].resp.courseId].createdAt

\* C19: the success response of a chapter-content request carries the
\* courseId and the chapterIndex of the request, and the section array that
\* was written to chapters[chapterIndex].content, whatever keys the parsed
\* object has.
C19_ResponseEchoesRequest ==
  [][ \A r \in Reqs :
        Writes(r, "content")
        => /\ req'[r].resp.courseId = req[r].body.courseId
           /\ req'[r].resp.chapterIndex = req[r].body.chapterIndex
           /\ req'[r].resp.data
                = ArrayGet(courses'[CourseOf(r)].chapters[1], IndexOf(r)).content ]_vars

C30_ErrorPrecedence ==
  [][ \A r \in Reqs :
        /\ ( /\ Free(r) /\ req'[r] /= req[r] /\ req'[r].kind \in OwnerChecked
              /\ \/ Falsy(req'[r].body.userId)
                 \/ /\ req'[r].kind /= "publish"
                    /\ \/ req'[r].body.chapterIndex = None
                       \/ Falsy(req'[r].body.chapterName)
                       \/ Falsy(req'[r].body.courseTopic)
                       \/ req'[r].kind = "content" /\ Falsy(req'[r].body.difficulty) )
            => req'[r].pc = "done" /\ req'[r].resp.status = 400
        /\ ( /\ req[r].kind \in OwnerChecked /\ req[r].pc = "read"
              /\ req'[r].pc /= "read" /\ req'[r].resp.status /= 500
              /\ ~Exists(CourseOf(r)) )
            => req'[r].pc = "done" /\ req'[r].resp.status = 404 ]_vars

C30_Witness ==
  \E r \in Reqs :
    /\ req[r].kind = "video" /\ req[r].body.chapterIndex = None
    /\ req[r].pc = "done" /\ req[r].resp.status = 400
    /\ ~Exists(CourseOf(r))

\* C22: a publish request and a chapter-content or video-fetch request on
\* one course do not lose each other's effect however their reads and
\* writes interleave: the publish write leaves the stored chapters alone,
\* the chapter write leaves status and publishedAt alone, and when both
\* read before either wrote, the later write leaves the course published
\* with the generated content (or videos) at chapters[chapterIndex].
C22_PublishAndChapterDisjoint ==
  [][ \A r \in Reqs : \A q \in Reqs \ {r} :
        LET c == IdPool[1]
            Held(kind, ch) == IF kind = "content" THEN ch.content ELSE ch.youtubeVideos IN
        /\ Writes(r, "publish")
            => /\ courses'[c].chapters = courses[c].chapters
               /\ courses'[c].status = "published" /\ courses'[c].publishedAt = Some(clock')
        /\ \A kind \in {"content", "video"} :
             /\ Writes(q, kind)
                 => /\ courses'[c].status = courses[c].status
                    /\ courses'[c].publishedAt = courses[c].publishedAt
                    /\ Held(kind, ArrayGet(courses'[c].chapters[1], IndexOf(q))) = req[q].result
             /\ ( /\ req[r].kind = "publish" /\ req[q].kind = kind
                   /\ req[r].snap = req[q].snap
                   /\ \/ Writes(r, "publish") /\ Succeeded(q, kind)
                      \/ Writes(q, kind) /\ Succeeded(r, "publish") )
                 => /\ courses'[c].status = "published"
                    /\ courses'[c].publishedAt /= None
                    /\ Held(kind, ArrayGet(courses'[c].chapters[1], IndexOf(q)))
                         = req[q].result ]_vars

\* Both read the draft, the content was written first, the publish after it.
C22_Witness ==
  \E r \in Reqs : \E q \in Reqs \ {r} :
    /\ Succeeded(r, "publish") /\ Succeeded(q, "content")
    /\ req[r].snap = req[q].snap /\ req[r].snap.status = "draft"
    /\ courses[IdPool[1]].status = "published"
    /\ courses[IdPool[1]].publishedAt = Some(clock)
    /\ req[q].result /= None
    /\ ArrayGet(courses[IdPool[1]].chapters[1], IndexOf(q)).content = req[q].result
    /\ ArrayGet(req[r].snap.chapters[1], IndexOf(q)).content = None

\* C21: in every reachable state a course whose status is published has
\* publishedAt set, whichever way it was published.
C21_PublishedHasPublishedAt ==
  \A c \in DOMAIN courses :
    courses[c].status = "published" => courses[c].publishedAt /= None

\* C29: the finish page reports a course complete exactly when every
\* chapter of its chapters array has content.
C29_CompleteIffAllContent ==
  \A r \in Reqs :
    ( req[r].kind \in FinishKinds /\ req[r].pc = "write" )
    => LET chapters == req[r].snap.chapters[1] IN
       req[r].result[1].complete
         <=> \A k \in 1..Len(chapters) :
               chapters[k].content /= None /\ chapters[k].content[1] /= <<>>

\* C25: whatever is dispatched, the toast state holds at most TOAST_LIMIT
\* toasts, and after an ADD_TOAST the toast just added is the one held.
C25_ToastLimit ==
  /\ [](Len(memoryState.toasts) <= TOAST_LIMIT)
  /\ [][ count' /= count =>
           /\ memoryState'.toasts /= <<>>
           /\ \A i \in DOMAIN memoryState'.toasts :
                memoryState'.toasts[i].id = ToString(count') ]_vars

\* A second toast has been shown and has taken the place of the first.
C25_Witness ==
  /\ count = 2
  /\ Len(memoryState.toasts) = 1
  /\ memoryState.toasts[1].id = "2"

\* C26: a dismissed toast is closed at once and is gone once the removal
\* timers have run; no toast id has two timers pending; the timer of a
\* toast that is no longer held leaves the toasts held as they are.
C26_DismissedToastRemoved ==
  /\ [](\A id \in ToastIds : Pending(id) <= 1)
  /\ [][ /\ \A id \in ToastIds :
              ( ToastDismissed(id) /\ Shown(id) ) =>
                \A i \in DOMAIN memoryState'.toasts :
                  memoryState'.toasts[i].id = id => ~memoryState'.toasts[i].open
         /\ ( TimerFires /\ ~Shown(Head(timers)) ) => memoryState' = memoryState
         /\ TimerFires => ~\E i \in DOMAIN memoryState'.toasts :
                             memoryState'.toasts[i].id = Head(timers) ]_vars
  /\ \A id \in ToastIds :
       ( Shown(id) /\ Pending(id) > 0 ) ~> ~Shown(id)

\* The second toast is held, dismissed twice over and waiting for its timer,
\* behind the timer of the first toast, which it has evicted.
C26_Witness ==
  /\ Len(memoryState.toasts) = 1
  /\ memoryState.toasts[1].id = "2"
  /\ ~memoryState.toasts[1].open
  /\ timers = <<"1", "2">>

\* C24: every body the wizard submits carries a category and a topic the
\* generate endpoint accepts.
C24_SubmittedBodyComplete ==
  \A r \in Reqs :
    req[r].kind = "generate" =>
      ~Falsy(req[r].body.category) /\ ~Falsy(req[r].body.topic)

\* C28: a user document's createdAt, once written, is never overwritten:
\* later runs of saveUserToFirestore change lastLogin only.
C28_CreatedAtKept ==
  [][ \A u \in DOMAIN users :
        u \in DOMAIN users' /\ users'[u].createdAt = users[u].createdAt ]_vars

\* C27: ProtectedRoute shows its children only for a user and loading
\* false, the spinner while loading, and for no user and loading false
\* nothing, after which its effect sends the browser to /sign-in.
C27_ChildrenOnlyForUser ==
  /\ []( /\ view.shows = "children" => ~view.loading /\ view.user /= Null
         /\ view.shows = "spinner" <=> (view.shows /= "unmounted" /\ view.loading)
         /\ view.shows = "nothing" <=>
              (view.shows /= "unmounted" /\ ~view.loading /\ view.user = Null)
         /\ view.shows = "nothing" => view.effect )
  /\ [][ ( Render => view'.user = auth.user /\ view'.loading = auth.loading )
         /\ ( Effect /\ view.shows = "nothing" => pathname' = SignInPage ) ]_vars

\* The user's name is known while the provider is still loading, and
\* ProtectedRoute has rendered in that state.
C27_Witness ==
  /\ view.shows = "spinner"
  /\ view.user = "u1"
  /\ view.loading
  /\ pathname = Protected

\* C23: what the local course holds when a response is applied is still
\* there afterwards: the response changes one field of one chapter only.
C23_LocalChangesKept ==
  [][ \A r \in DOMAIN flights :
        ( ResponseApplied(r) /\ req[r].resp.status = 200 ) =>
          editor'.course = Some(MergedIntoCurrent(flights[r], req[r].resp.data)) ]_vars

====
